---- MODULE Spec2Model ----
(***************************************************************************)
(* A model of unify_fgd.py: the tag algebra (expand_tags, add_tag), the    *)
(* AppliesTo normaliser (get_appliesto), the import merger (action_import) *)
(* and the export engine (action_export) over a database of fragment files.*)
(* Tags, classnames, paths and descriptions are strings, as in the source. *)
(***************************************************************************)
EXTENDS Integers, Sequences, FiniteSets, TLC

VARIABLES
    db,          \* the database on disk: path -> (classname -> entity)
    pc,          \* "idle" | "import" | "raised" | "exported": position of the invocation
    engine_tag,  \* action_import's engine_tag argument
    todo,        \* the entities of new_fgd the loop of action_import has not reached
    written,     \* classnames whose fragment this invocation has written
    last,        \* history: the loop iteration of action_import that ran last
    narrowed,    \* history: <<classname, category, key, engine, value>> tag-negated by an import
    nimports,    \* number of action_import invocations started
    out,         \* what the last action_export handed to the serializer
    start,       \* history: the database before the first invocation
    tset,        \* tag algebra: the TagSet the function is applied to
    ttag,        \* tag algebra: the tag argument of add_tag
    tonce,       \* tag algebra: the result of the first application
    tres,        \* tag algebra: the current result
    tn           \* tag algebra: number of applications so far

vars == <<db, pc, engine_tag, todo, written, last, narrowed, nimports, out, start,
          tset, ttag, tonce, tres, tn>>
dbvars == <<db, pc, engine_tag, todo, written, last, narrowed, nimports, out, start>>
tagvars == <<tset, ttag, tonce, tres, tn>>

(***************************************************************************)
(* Strings.  Python compares and upper-cases strings by code point; Ascii  *)
(* lists the characters the model uses in code point order.                *)
(***************************************************************************)
Ascii == "!+-.0123456789ABCDEFGHIJKLMNOPQRSTUVWXYZ_abcdefghijklmnopqrstuvwxyz|"
\* str.upper() of one character: the lower-case letters and their upper case
UpperOf ==
    [a |-> "A", b |-> "B", c |-> "C", d |-> "D", e |-> "E", f |-> "F",
     g |-> "G", h |-> "H", i |-> "I", j |-> "J", k |-> "K", l |-> "L",
     m |-> "M", n |-> "N", o |-> "O", p |-> "P", q |-> "Q", r |-> "R",
     s |-> "S", t |-> "T", u |-> "U", v |-> "V", w |-> "W", x |-> "X",
     y |-> "Y", z |-> "Z"]

CharAt(s, i) == SubSeq(s, i, i)

Ord(c) == CHOOSE i \in 1..Len(Ascii) : CharAt(Ascii, i) = c

UpperChar(c) == IF c \in DOMAIN UpperOf THEN UpperOf[c] ELSE c

RECURSIVE upper(_)
upper(s) == IF Len(s) = 0 THEN s ELSE UpperChar(CharAt(s, 1)) \o upper(Tail(s))

\* str.startswith(('!', '-'))
startswith(s, prefixes) == Len(s) >= 1 /\ CharAt(s, 1) \in prefixes

\* a < b for Python strings
RECURSIVE StrLess(_, _)
StrLess(a, b) ==
    IF Len(b) = 0 THEN FALSE
    ELSE IF Len(a) = 0 THEN TRUE
    ELSE IF CharAt(a, 1) = CharAt(b, 1) THEN StrLess(Tail(a), Tail(b))
    ELSE Ord(CharAt(a, 1)) < Ord(CharAt(b, 1))

\* sorted(set of strings)
RECURSIVE sorted(_)
sorted(S) ==
    IF S = {} THEN <<>>
    ELSE LET m == CHOOSE x \in S : \A y \in S \ {x} : StrLess(x, y)
         IN  <<m>> \o sorted(S \ {m})

\* needle in haystack, for Python strings
contains(haystack, needle) ==
    \E i \in 1..(Len(haystack) - Len(needle) + 1) :
        SubSeq(haystack, i, i + Len(needle) - 1) = needle

Range(f) == {f[i] : i \in DOMAIN f}

(***************************************************************************)
(* The tag vocabulary.                                                     *)
(***************************************************************************)
GAME_ORDER == <<"HLS", "DODS", "CSS", "HL2", "EP1", "EP2", "TF2", "P1", "L4D",
                "L4D2", "ASW", "P2", "CSGO", "SFM", "DOTA2", "PUNT", "P2DES">>

FEATURES ==
    [g \in {"L4D", "TF2", "ASW", "P2", "CSGO", "P2DES"} |->
        CASE g = "L4D"   -> {"INSTANCING"}
          [] g = "TF2"   -> {"INSTANCING", "PROP_SCALING"}
          [] g = "ASW"   -> {"INSTANCING", "VSCRIPT"}
          [] g = "P2"    -> {"INSTANCING", "VSCRIPT"}
          [] g = "CSGO"  -> {"INSTANCING", "PROP_SCALING", "VSCRIPT"}
          [] g = "P2DES" -> {"INSTANCING", "PROP_SCALING", "VSCRIPT"}]

\* expand_tags starting from the empty set instead of set(tags)
expand_tags_drops_input(tags) ==
    LET feat(tag) == IF upper(tag) \in DOMAIN FEATURES THEN FEATURES[upper(tag)] ELSE {}
        games(tag) ==
            IF upper(tag) \in Range(GAME_ORDER)
            THEN LET pos == CHOOSE i \in DOMAIN GAME_ORDER : GAME_ORDER[i] = upper(tag)
                 IN  {"SINCE_" \o GAME_ORDER[i] : i \in 1..pos}
                     \cup {"UNTIL_" \o GAME_ORDER[i] : i \in (pos + 1)..Len(GAME_ORDER)}
            ELSE {}
    IN  UNION {feat(tag) \cup games(tag) : tag \in tags}

expand_tags(tags) ==
    LET feat(tag) == IF upper(tag) \in DOMAIN FEATURES THEN FEATURES[upper(tag)] ELSE {}
        games(tag) ==
            IF upper(tag) \in Range(GAME_ORDER)
            THEN LET pos == CHOOSE i \in DOMAIN GAME_ORDER : GAME_ORDER[i] = upper(tag)
                 IN  {"SINCE_" \o GAME_ORDER[i] : i \in 1..pos}
                     \cup {"UNTIL_" \o GAME_ORDER[i] : i \in (pos + 1)..Len(GAME_ORDER)}
            ELSE {}
    IN  tags \cup UNION {feat(tag) \cup games(tag) : tag \in tags}

\* add_tag with the discard of the un-prefixed token left out
add_tag_keeps_positive(tags, new_tag) ==
    IF startswith(new_tag, {"!", "-"})
    THEN tags \cup {new_tag}
    ELSE LET cleared == (tags \ {"!" \o upper(new_tag)}) \ {"-" \o upper(new_tag)}
         IN  IF ("+" \o upper(new_tag)) \notin cleared
             THEN cleared \cup {upper(new_tag)}
             ELSE cleared

add_tag(tags, new_tag) ==
    IF startswith(new_tag, {"!", "-"})
    THEN (tags \ {Tail(new_tag)}) \cup {new_tag}
    ELSE LET cleared == (tags \ {"!" \o upper(new_tag)}) \ {"-" \o upper(new_tag)}
         IN  IF ("+" \o upper(new_tag)) \notin cleared
             THEN cleared \cup {upper(new_tag)}
             ELSE cleared


(***************************************************************************)
(* The data model: Definitions (KeyValues, IODef), tag maps (Python dicts  *)
(* from TagSet to Definition, in insertion order), helpers and entities.   *)
(***************************************************************************)
None == {}
Some(x) == {x}

KeyValues(type, desc, val_list) ==
    [kind |-> "KeyValues", type |-> type, desc |-> desc, val_list |-> val_list]
IODef(type, desc) ==
    [kind |-> "IODef", type |-> type, desc |-> desc, val_list |-> None]
Choice(value, name) == [value |-> value, name |-> name, tags |-> {}]

Cats == {"keyvalues", "inputs", "outputs"}

EntityDef(classname, type, desc, bases, helpers, keyvalues, inputs, outputs) ==
    [classname |-> classname, type |-> type, desc |-> desc, bases |-> bases,
     helpers |-> helpers, keyvalues |-> keyvalues, inputs |-> inputs,
     outputs |-> outputs]

Helper(type, args) == [type |-> type, args |-> args]
EXT_APPLIES_TO == "EXT_APPLIES_TO"
EXT_ORDERBY == "EXT_ORDERBY"

Entry(tag, val) == [tag |-> tag, val |-> val]

\* tag_map[key] = value: an existing key keeps its place, a new one goes last
DictSet(m, k, v) ==
    IF \E i \in DOMAIN m : m[i].tag = k
    THEN [i \in DOMAIN m |-> IF m[i].tag = k THEN Entry(k, v) ELSE m[i]]
    ELSE Append(m, Entry(k, v))

\* del tag_map[key]
RECURSIVE DictDel(_, _)
DictDel(m, k) ==
    IF m = <<>> THEN <<>>
    ELSE IF Head(m).tag = k THEN Tail(m)
    ELSE <<Head(m)>> \o DictDel(Tail(m), k)

DictKeys(m) == {m[i].tag : i \in DOMAIN m}
DictValues(m) == {m[i].val : i \in DOMAIN m}
DictGet(m, k) == (CHOOSE e \in Range(m) : e.tag = k).val

\* {add_tag(tag, new_tag): value for tag, value in tag_map.items()}
RECURSIVE retag(_, _, _)
retag(acc, tag_map, new_tag) ==
    IF tag_map = <<>> THEN acc
    ELSE retag(DictSet(acc, add_tag(Head(tag_map).tag, new_tag), Head(tag_map).val),
               Tail(tag_map), new_tag)

(***************************************************************************)
(* ent_path, and the path the file system resolves it to.                  *)
(***************************************************************************)
ent_path(ent) ==
    IF ent.classname = "worldspawn" THEN "worldspawn.fgd"
    ELSE LET folder == IF ent.type = "BASE" THEN "bases"
                       ELSE IF ent.type = "BRUSH" THEN "brush"
                       ELSE "point/"
         IN  folder \o "/" \o ent.classname \o ".fgd"

\* dbase / ent_path(new_ent): pathlib drops the empty component of "point//x.fgd"
RECURSIVE PathJoin(_)
PathJoin(p) ==
    IF Len(p) < 2 THEN p
    ELSE IF SubSeq(p, 1, 2) = "//" THEN PathJoin(Tail(p))
    ELSE CharAt(p, 1) \o PathJoin(Tail(p))

(***************************************************************************)
(* get_appliesto: the helpers after normalisation, with arg_list.          *)
(***************************************************************************)
RECURSIVE without_appliesto(_)
without_appliesto(helpers) ==
    IF helpers = <<>> THEN <<>>
    ELSE IF Head(helpers).type = EXT_APPLIES_TO THEN without_appliesto(Tail(helpers))
    ELSE <<Head(helpers)>> \o without_appliesto(Tail(helpers))

\* list.insert(pos, x), pos 0-based
ListInsert(l, pos, x) ==
    LET p == IF pos > Len(l) THEN Len(l) ELSE pos
    IN  SubSeq(l, 1, p) \o <<x>> \o SubSeq(l, p + 1, Len(l))

appliesto_pos(helpers) ==
    LET found == {i \in DOMAIN helpers : helpers[i].type = EXT_APPLIES_TO}
    IN  IF found = {} THEN 0
        ELSE (CHOOSE i \in found : \A j \in found : i <= j) - 1

appliesto_args(helpers) ==
    sorted(UNION {Range(helpers[i].args) :
                    i \in {j \in DOMAIN helpers : helpers[j].type = EXT_APPLIES_TO}})

get_appliesto(helpers) ==
    ListInsert(without_appliesto(helpers), appliesto_pos(helpers),
               Helper(EXT_APPLIES_TO, appliesto_args(helpers)))

\* applies_to = get_appliesto(ent); if engine_tag not in applies_to: append
set_appliesto(helpers, tag) ==
    LET norm == get_appliesto(helpers)
        pos == appliesto_pos(helpers) + 1
        args == norm[pos].args
    IN  IF tag \in Range(args) THEN norm
        ELSE [norm EXCEPT ![pos] = Helper(EXT_APPLIES_TO, Append(args, tag))]

(***************************************************************************)
(* action_import: the merge of one new entity into the one on disk.        *)
(***************************************************************************)
RECURSIVE merge_list(_, _)
merge_list(cur, new) ==
    IF new = <<>> THEN cur
    ELSE merge_list(IF Head(new) \in Range(cur) THEN cur ELSE Append(cur, Head(new)),
                    Tail(new))

merge_desc(desc, new_desc) ==
    IF ~contains(desc, new_desc) THEN desc \o "|||" \o new_desc ELSE desc

\* merge_tag_map that inserts an unmatched value under the fragment's own tag
RECURSIVE merge_tag_map_no_engine(_, _, _)
merge_tag_map_no_engine(orig_tag_map, tag_map, tag_engine) ==
    IF tag_map = <<>> THEN orig_tag_map
    ELSE LET tag == Head(tag_map).tag
             new_value == Head(tag_map).val
             hits == {i \in DOMAIN orig_tag_map : orig_tag_map[i].val = new_value}
             merged ==
                IF hits # {}
                THEN LET old_tag == orig_tag_map[CHOOSE i \in hits : \A j \in hits : i <= j].tag
                     IN  IF tag # {}
                         THEN DictSet(DictDel(orig_tag_map, old_tag),
                                      add_tag(old_tag, tag_engine), new_value)
                         ELSE orig_tag_map
                ELSE DictSet(orig_tag_map, tag, new_value)
         IN  merge_tag_map_no_engine(merged, Tail(tag_map), tag_engine)

\* the loop over tag_map.items() of a key both entities have
RECURSIVE merge_tag_map(_, _, _)
merge_tag_map(orig_tag_map, tag_map, tag_engine) ==
    IF tag_map = <<>> THEN orig_tag_map
    ELSE LET tag == Head(tag_map).tag
             new_value == Head(tag_map).val
             hits == {i \in DOMAIN orig_tag_map : orig_tag_map[i].val = new_value}
             merged ==
                IF hits # {}
                THEN LET old_tag == orig_tag_map[CHOOSE i \in hits : \A j \in hits : i <= j].tag
                     IN  IF tag # {}
                         THEN DictSet(DictDel(orig_tag_map, old_tag),
                                      add_tag(old_tag, tag_engine), new_value)
                         ELSE orig_tag_map
                ELSE DictSet(orig_tag_map, add_tag(tag, tag_engine), new_value)
         IN  merge_tag_map(merged, Tail(tag_map), tag_engine)

merge_cat(cur_map, new_map, tag_engine) ==
    [name \in DOMAIN cur_map \cup DOMAIN new_map |->
        IF name \notin DOMAIN new_map
        THEN retag(<<>>, cur_map[name], "!" \o tag_engine)
        ELSE IF name \notin DOMAIN cur_map
        THEN retag(<<>>, new_map[name], tag_engine)
        ELSE merge_tag_map(cur_map[name], new_map[name], tag_engine)]

\* the entity of the old file after the merge, before get_appliesto
merge_ent(ent, new_ent, tag_engine) ==
    [ent EXCEPT
        !.desc = merge_desc(ent.desc, new_ent.desc),
        !.bases = merge_list(ent.bases, new_ent.bases),
        !.helpers = merge_list(ent.helpers, new_ent.helpers),
        !.keyvalues = merge_cat(ent.keyvalues, new_ent.keyvalues, tag_engine),
        !.inputs = merge_cat(ent.inputs, new_ent.inputs, tag_engine),
        !.outputs = merge_cat(ent.outputs, new_ent.outputs, tag_engine)]


(***************************************************************************)
(* The databases the model starts from and the fragments it imports.       *)
(***************************************************************************)
Untagged(value) == <<Entry({}, value)>>

V1 == KeyValues("INT", "", None)
V2 == KeyValues("STRING", "", None)
V3 == KeyValues("STRING", "speed", None)
VChoiceInt == KeyValues("CHOICES", "mode", Some(<<Choice("0", "Off"), Choice(" -1", "On")>>))
VChoiceStr == KeyValues("CHOICES", "", Some(<<Choice("0", "Off"), Choice("1.5", "Half")>>))
IO1 == IODef("VOID", "fires")
IO2 == IODef("INT", "")

EntBase ==
    EntityDef("base", "BASE", "shared", <<>>,
              <<Helper(EXT_APPLIES_TO, <<"EP1">>), Helper("SIZE", <<"8">>)>>,
              ("targetname" :> Untagged(V2)), <<>>, <<>>)

\* the entity of the specification's scenario: k has one alternative, tagged HL2
EntX_A ==
    EntityDef("x", "POINT", "a", <<"base">>,
              <<Helper("SIZE", <<"8">>), Helper(EXT_APPLIES_TO, <<"HL2">>)>>,
              ("k" :> <<Entry({"HL2"}, V1)>>), ("i" :> Untagged(IO1)), <<>>)

\* k differs between EP1 and the other engines; two AppliesTo helpers
EntX_B ==
    EntityDef("x", "POINT", "a|||b", <<>>,
              <<Helper(EXT_ORDERBY, <<"k">>), Helper(EXT_APPLIES_TO, <<"HL2", "EP1">>),
                Helper(EXT_APPLIES_TO, <<"TF2", "HL2">>)>>,
              ("k" :> <<Entry({"EP1"}, V1), Entry({"!EP1"}, V2)>>)
                  @@ ("mode" :> Untagged(VChoiceInt)),
              <<>>,
              ("o" :> <<Entry({"EP1"}, IO1), Entry({"ENGINE"}, IO2)>>))

EntZZ == EntityDef("zz", "POINT", "", <<>>, <<>>, <<>>, <<>>, <<>>)

EntW ==
    EntityDef("w", "BRUSH", "wall", <<"base">>, <<>>,
              ("style" :> <<Entry({"HL2"}, VChoiceStr), Entry({"TF2", "EP1"}, V1)>>)
                  @@ ("targetname" :> Untagged(V3)) @@ ("kind" :> Untagged(VChoiceStr)),
              <<>>, <<>>)

\* an ENGINE alternative that is a choice enumeration
EntBad ==
    EntityDef("bad", "POINT", "", <<>>, <<>>,
              ("style" :> <<Entry({"HL2"}, V1), Entry({"ENGINE"}, VChoiceInt)>>),
              <<>>, <<>>)

DbEmpty == << >>
DbA == ("bases/base.fgd" :> ("base" :> EntBase)) @@ ("point/x.fgd" :> ("x" :> EntX_A))
\* point/z.fgd holds the classname zz, not z
DbB == ("bases/base.fgd" :> ("base" :> EntBase)) @@ ("point/x.fgd" :> ("x" :> EntX_B))
            @@ ("point/z.fgd" :> ("zz" :> EntZZ)) @@ ("brush/w.fgd" :> ("w" :> EntW))
DbC == ("point/bad.fgd" :> ("bad" :> EntBad))
Databases == {DbEmpty, DbA, DbB, DbC}

FragX1 ==
    EntityDef("x", "POINT", "a", <<"base">>, <<Helper("SIZE", <<"8">>)>>,
              ("k" :> Untagged(V1)), ("i" :> Untagged(IO1)), <<>>)
FragX2 ==
    EntityDef("x", "POINT", "b", <<>>, <<Helper("SIZE", <<"16">>)>>,
              ("k" :> Untagged(V2)), <<>>, ("o" :> Untagged(IO1)))
FragX3 ==
    EntityDef("x", "POINT", "", <<"base">>, <<>>,
              ("j" :> Untagged(V3)), <<>>, <<>>)
FragX4 ==
    EntityDef("x", "POINT", "a", <<>>, <<>>,
              ("k" :> Untagged(V3)), <<>>, <<>>)
FragY ==
    EntityDef("y", "POINT", "", <<>>, <<>>,
              ("k" :> Untagged(VChoiceInt)), <<>>, <<>>)
FragZ == EntityDef("z", "POINT", "", <<>>, <<>>, <<>>, <<>>, <<>>)
\* x declared as a brush entity
FragXBrush == EntityDef("x", "BRUSH", "", <<>>, <<>>, <<>>, <<>>, <<>>)

\* the entities of new_fgd, in the order the loop meets them
Invocations == {<<FragX1>>, <<FragX2>>, <<FragX3>>, <<FragX4>>,
                <<FragY, FragZ>>, <<FragZ, FragY>>, <<FragXBrush>>}
EngineTags == {"EP1", "HL2"}

MaxImports == 2

(***************************************************************************)
(* action_import, one iteration of its loop at a time.                     *)
(***************************************************************************)
DbIdle ==
    /\ pc = "idle"
    /\ engine_tag = ""
    /\ todo = <<>>
    /\ written = {}
    /\ last = [op |-> "none"]
    /\ narrowed = {}
    /\ nimports = 0
    /\ out = [mode |-> "none"]

TagIdle ==
    /\ tset = {}
    /\ ttag = ""
    /\ tonce = {}
    /\ tres = {}
    /\ tn = 0

Init ==
    /\ db \in Databases
    /\ start = db
    /\ DbIdle
    /\ TagIdle

\* the file the loop is about to read, and whether it holds the classname
new_path == PathJoin(ent_path(Head(todo)))
classname_missing ==
    /\ new_path \in DOMAIN db
    /\ Head(todo).classname \notin DOMAIN db[new_path]

\* history: the alternatives an import tag-negates, as
\* <<classname, category, key, engine, value>>
removed_keys(ent, new_ent, tag_engine) ==
    UNION {UNION {{<<ent.classname, cat, name, tag_engine, v>> :
                        v \in DictValues(ent[cat][name])} :
                  name \in DOMAIN ent[cat] \ DOMAIN new_ent[cat]} :
           cat \in Cats}

\* history: the alternatives negated by an earlier import under this engine
\* that the fragment declares again
restored_keys(ent, new_ent, tag_engine) ==
    UNION {UNION {{<<ent.classname, cat, name, tag_engine, v>> :
                        v \in DictValues(new_ent[cat][name])} :
                  name \in DOMAIN ent[cat] \cap DOMAIN new_ent[cat]} :
           cat \in Cats}
    \cap narrowed

ImportBegin(tag, new_fgd) ==
    /\ pc \in {"idle", "raised"}
    /\ nimports < MaxImports
    /\ pc' = "import"
    /\ engine_tag' = tag
    /\ todo' = new_fgd
    /\ written' = {}
    /\ nimports' = nimports + 1
    /\ UNCHANGED <<db, last, narrowed, out>>
    /\ UNCHANGED <<start, tagvars>>


\* the merge of new_ent into the entity of the existing file, and its write
ImportMerge ==
    /\ pc = "import"
    /\ todo # <<>>
    /\ new_path \in DOMAIN db
    /\ ~classname_missing
    /\ LET new_ent == Head(todo)
           old == db[new_path][new_ent.classname]
           merged == merge_ent(old, new_ent, engine_tag)
           ent == [merged EXCEPT !.helpers = set_appliesto(merged.helpers, engine_tag)]
       IN  /\ db' = [db EXCEPT ![new_path] = [@ EXCEPT ![new_ent.classname] = ent]]
           /\ last' = [op |-> "merge", path |-> new_path, engine |-> engine_tag,
                       new |-> new_ent, old |-> old, helpers |-> merged.helpers,
                       repeat |-> (/\ last.op # "none"
                                   /\ last.engine = engine_tag
                                   /\ last.new = new_ent),
                       restored |-> restored_keys(old, new_ent, engine_tag)]
           /\ narrowed' = (narrowed \ restored_keys(old, new_ent, engine_tag))
                              \cup removed_keys(old, new_ent, engine_tag)
           /\ written' = written \cup {new_ent.classname}
    /\ todo' = Tail(todo)
    /\ UNCHANGED <<pc, engine_tag, nimports, out>>
    /\ UNCHANGED <<start, tagvars>>

\* no file at the path: new_ent is written as it is, with its AppliesTo
ImportNew ==
    /\ pc = "import"
    /\ todo # <<>>
    /\ new_path \notin DOMAIN db
    /\ LET new_ent == Head(todo)
           ent == [new_ent EXCEPT !.helpers = set_appliesto(new_ent.helpers, engine_tag)]
       IN  /\ db' = (new_path :> (new_ent.classname :> ent)) @@ db
           /\ last' = [op |-> "new", path |-> new_path, engine |-> engine_tag,
                       new |-> new_ent, old |-> new_ent, helpers |-> new_ent.helpers,
                       repeat |-> FALSE, restored |-> {}]
           /\ written' = written \cup {new_ent.classname}
    /\ todo' = Tail(todo)
    /\ UNCHANGED <<pc, engine_tag, narrowed, nimports, out>>
    /\ UNCHANGED <<start, tagvars>>

\* the iteration skipped instead of the exception raised
ImportRaise_skips ==
    /\ pc = "import"
    /\ todo # <<>>
    /\ classname_missing
    /\ todo' = Tail(todo)
    /\ UNCHANGED <<db, pc, engine_tag, written, last, narrowed, nimports, out>>
    /\ UNCHANGED <<start, tagvars>>

\* raise ValueError("Classname not present in FGD!"): nothing catches it
ImportRaise ==
    /\ pc = "import"
    /\ todo # <<>>
    /\ classname_missing
    /\ pc' = "raised"
    /\ UNCHANGED <<db, engine_tag, todo, written, last, narrowed, nimports, out>>
    /\ UNCHANGED <<start, tagvars>>

\* the loop is over
ImportEnd ==
    /\ pc = "import"
    /\ todo = <<>>
    /\ pc' = "idle"
    /\ UNCHANGED <<db, engine_tag, todo, written, last, narrowed, nimports, out>>
    /\ UNCHANGED <<start, tagvars>>

(***************************************************************************)
(* The library primitives action_export calls.  Their code is not part of  *)
(* the source tree; they follow the specification's description.           *)
(***************************************************************************)
\* selects(requested, candidate): every positive tag of the candidate is
\* requested, and no tag it negates is
match_tags(search, tags) ==
    \A t \in tags :
        IF startswith(t, {"!", "-"}) THEN upper(Tail(t)) \notin search
        ELSE IF startswith(t, {"+"}) THEN upper(Tail(t)) \in search
        ELSE upper(t) \in search

\* the files of the database read into one FGD: classname -> entity (a
\* classname held by several files comes from any one of them)
RECURSIVE parse_files(_, _)
parse_files(dbase, names) ==
    IF names = {} THEN {<< >>}
    ELSE LET c == CHOOSE n \in names : TRUE
         IN  {(c :> dbase[p][c]) @@ fgd :
                p \in {q \in DOMAIN dbase : c \in DOMAIN dbase[q]},
                fgd \in parse_files(dbase, names \ {c})}

load_database(dbase) ==
    parse_files(dbase, UNION {DOMAIN dbase[p] : p \in DOMAIN dbase})

\* apply_bases finds every base an entity names
bases_known(fgd) == \A c \in DOMAIN fgd : Range(fgd[c].bases) \subseteq DOMAIN fgd

\* collapse_bases: an entity's category with its ancestors' entries inlined,
\* its own first, then its bases' from left to right
RECURSIVE collapse_cat(_, _, _), inherit(_, _, _, _)
collapse_cat(fgd, classname, cat) ==
    inherit(fgd, fgd[classname][cat], fgd[classname].bases, cat)
inherit(fgd, acc, bases, cat) ==
    IF bases = <<>> THEN acc
    ELSE LET base_map == collapse_cat(fgd, Head(bases), cat)
         IN  inherit(fgd,
                     [n \in DOMAIN acc \cup DOMAIN base_map |->
                        IF n \in DOMAIN acc THEN acc[n] ELSE base_map[n]],
                     Tail(bases), cat)

collapse_bases(fgd) ==
    [c \in DOMAIN fgd |->
        [fgd[c] EXCEPT !.keyvalues = collapse_cat(fgd, c, "keyvalues"),
                       !.inputs = collapse_cat(fgd, c, "inputs"),
                       !.outputs = collapse_cat(fgd, c, "outputs")]]

\* strip_tags: each key narrowed to the one alternative the tags select
selected(tag_map, tags) == {i \in DOMAIN tag_map : match_tags(tags, tag_map[i].tag)}
strip_ambiguous(ent, tags) ==
    \E cat \in Cats : \E name \in DOMAIN ent[cat] :
        Cardinality(selected(ent[cat][name], tags)) > 1
strip_cat(cat_map, tags) ==
    [name \in {n \in DOMAIN cat_map : selected(cat_map[n], tags) # {}} |->
        Untagged(cat_map[name][CHOOSE i \in selected(cat_map[name], tags) : TRUE].val)]
strip_tags(ent, tags) ==
    [ent EXCEPT !.keyvalues = strip_cat(ent.keyvalues, tags),
                !.inputs = strip_cat(ent.inputs, tags),
                !.outputs = strip_cat(ent.outputs, tags)]

(***************************************************************************)
(* action_export.                                                          *)
(***************************************************************************)
RECURSIVE strip_helpers(_, _)
strip_helpers(helpers, types) ==
    IF helpers = <<>> THEN <<>>
    ELSE IF Head(helpers).type \in types THEN strip_helpers(Tail(helpers), types)
    ELSE <<Head(helpers)>> \o strip_helpers(Tail(helpers), types)

\* the final filter that keeps every entity
remove_bases_keeps_all(fgd) == fgd

\* fgd.entities without the BASE entities
remove_bases(fgd) ==
    [c \in {n \in DOMAIN fgd : fgd[n].type # "BASE"} |-> fgd[c]]

\* str.strip() of the blanks around a number
RECURSIVE strip(_)
strip(s) ==
    IF Len(s) = 0 THEN s
    ELSE IF CharAt(s, 1) = " " THEN strip(Tail(s))
    ELSE IF CharAt(s, Len(s)) = " " THEN strip(SubSeq(s, 1, Len(s) - 1))
    ELSE s

\* int(choice_val) does not raise: blanks around an optional sign and digits
\* that single underscores may separate
Digits == {"0", "1", "2", "3", "4", "5", "6", "7", "8", "9"}
is_int(s) ==
    LET body == IF startswith(strip(s), {"+", "-"}) THEN Tail(strip(s)) ELSE strip(s)
    IN  /\ Len(body) >= 1
        /\ \A i \in 1..Len(body) : CharAt(body, i) \in Digits \cup {"_"}
        /\ CharAt(body, 1) \in Digits
        /\ CharAt(body, Len(body)) \in Digits
        /\ \A i \in 1..(Len(body) - 1) : SubSeq(body, i, i + 1) # "__"

\* the alternative engine mode keeps for a key, before its conversion
engine_pick(tag_map) ==
    IF Len(tag_map) = 1 THEN tag_map[1].val
    ELSE IF {"ENGINE"} \in DictKeys(tag_map) THEN DictGet(tag_map, {"ENGINE"})
    ELSE tag_map[CHOOSE i \in DOMAIN tag_map :
                    \A j \in DOMAIN tag_map :
                        \/ Cardinality(tag_map[i].tag) < Cardinality(tag_map[j].tag)
                        \/ (Cardinality(tag_map[i].tag) = Cardinality(tag_map[j].tag) /\ i <= j)].val

\* the picks that raise: an ENGINE alternative of type CHOICES, and
\* sorted(...)[0] of a key without alternatives
engine_raises(tag_map) ==
    \/ Len(tag_map) = 0
    \/ /\ Len(tag_map) > 1
       /\ {"ENGINE"} \in DictKeys(tag_map)
       /\ DictGet(tag_map, {"ENGINE"}).type = "CHOICES"

\* engine_value that leaves the description in place
engine_value_keeps_desc(tag_map) ==
    LET value == engine_pick(tag_map)
    IN  IF value.type = "CHOICES" /\ value.kind = "KeyValues"
        THEN [value EXCEPT
                !.type = IF \A vl \in value.val_list : \A i \in DOMAIN vl : is_int(vl[i].value)
                         THEN "INT" ELSE "STRING",
                !.val_list = None]
        ELSE value

\* the value engine mode writes for a key
engine_value(tag_map) ==
    LET value == engine_pick(tag_map)
        typed == IF value.type = "CHOICES" /\ value.kind = "KeyValues"
                 THEN [value EXCEPT
                        !.type = IF \A vl \in value.val_list :
                                        \A i \in DOMAIN vl : is_int(vl[i].value)
                                 THEN "INT" ELSE "STRING",
                        !.val_list = None]
                 ELSE value
    IN  [typed EXCEPT !.desc = ""]

engine_cat(cat_map) == [key \in DOMAIN cat_map |-> Untagged(engine_value(cat_map[key]))]

engine_ent(ent) ==
    [ent EXCEPT !.helpers = strip_helpers(ent.helpers, {EXT_APPLIES_TO, EXT_ORDERBY}),
                !.inputs = engine_cat(ent.inputs),
                !.outputs = engine_cat(ent.outputs),
                !.keyvalues = engine_cat(ent.keyvalues)]

\* tagged mode: the entities match_tags keeps, stripped; the others stay as
\* they are, out of fgd.entities, and can still be the bases of kept ones
kept(fgd, tags) ==
    {c \in DOMAIN fgd : match_tags(tags, Range(appliesto_args(fgd[c].helpers)))}
cull(fgd, tags) ==
    [c \in DOMAIN fgd |->
        IF c \in kept(fgd, tags)
        THEN strip_tags([fgd[c] EXCEPT
                            !.helpers = strip_helpers(get_appliesto(fgd[c].helpers),
                                                      {EXT_APPLIES_TO})],
                        tags)
        ELSE [fgd[c] EXCEPT !.helpers = get_appliesto(fgd[c].helpers)]]

TagRequests == {{"HL2"}, {"EP1"}, {"HL2", "EP1", "TF2"}}

ExportEngine ==
    /\ pc = "idle"
    /\ \E fgd \in load_database(db) :
        out' = IF ~bases_known(fgd) THEN [mode |-> "raised"]
               ELSE LET merged == collapse_bases(fgd)
                    IN  IF \E c \in DOMAIN merged : \E cat \in Cats :
                                \E key \in DOMAIN merged[c][cat] :
                                    engine_raises(merged[c][cat][key])
                        THEN [mode |-> "raised"]
                        ELSE [mode |-> "engine", tags |-> {"ENGINE"},
                              ents |-> remove_bases([c \in DOMAIN merged |->
                                                        engine_ent(merged[c])])]
    /\ pc' = "exported"
    /\ UNCHANGED <<db, engine_tag, todo, written, last, narrowed, nimports>>
    /\ UNCHANGED <<start, tagvars>>

ExportTagged(tags) ==
    /\ pc = "idle"
    /\ \E fgd \in load_database(db) :
        out' = IF ~bases_known(fgd) THEN [mode |-> "raised"]
               ELSE LET expanded == expand_tags(tags)
                        keep == kept(fgd, expanded)
                    IN  IF \E c \in keep : strip_ambiguous(fgd[c], expanded)
                        THEN [mode |-> "raised"]
                        ELSE LET merged == collapse_bases(cull(fgd, expanded))
                             IN  [mode |-> "tagged", tags |-> tags,
                                  ents |-> remove_bases([c \in keep |-> merged[c]])]
    /\ pc' = "exported"
    /\ UNCHANGED <<db, engine_tag, todo, written, last, narrowed, nimports>>
    /\ UNCHANGED <<start, tagvars>>

\* the export invocation is over; its output file is no part of the database
ExportEnd ==
    /\ pc = "exported"
    /\ pc' = "idle"
    /\ out' = [mode |-> "none"]
    /\ UNCHANGED <<db, engine_tag, todo, written, last, narrowed, nimports>>
    /\ UNCHANGED <<start, tagvars>>

Next ==
    \/ \E tag \in EngineTags, new_fgd \in Invocations : ImportBegin(tag, new_fgd)
    \/ ImportMerge
    \/ ImportNew
    \/ ImportRaise
    \/ ImportEnd
    \/ ExportEngine
    \/ \E tags \in TagRequests : ExportTagged(tags)
    \/ ExportEnd

Spec == Init /\ [][Next]_vars

\* the entity the last iteration wrote
after == db[last.path][last.new.classname]

(***************************************************************************)
(* The tag algebra on its own: add_tag applied twice to a drawn TagSet.    *)
(***************************************************************************)
TagTokens == {"EP1", "HL2"}
TagPrefixes == {"", "!", "-", "+"}
TagUniverse == {p \o x : p \in TagPrefixes, x \in TagTokens}
\* the literal tags add_tag is given: every prefixed form, and a lower-case one
TagLiterals == TagUniverse \cup {"ep1", "!ep1"}

TagInit ==
    /\ db = DbEmpty
    /\ start = DbEmpty
    /\ DbIdle
    /\ tset \in SUBSET TagUniverse
    /\ ttag \in TagLiterals
    /\ tonce = {}
    /\ tres = tset
    /\ tn = 0

ApplyAddTag ==
    /\ tn < 2
    /\ tres' = add_tag(tres, ttag)
    /\ tonce' = IF tn = 0 THEN add_tag(tres, ttag) ELSE tonce
    /\ tn' = tn + 1
    /\ UNCHANGED <<tset, ttag>>
    /\ UNCHANGED dbvars

TagNext == ApplyAddTag

SpecTag == TagInit /\ [][TagNext]_vars

(***************************************************************************)
(* expand_tags on its own: applied twice to a TagSet drawn from ALL_TAGS.  *)
(***************************************************************************)
ALL_FEATURES == UNION Range(FEATURES)
TAGS_SPECIAL == {"ENGINE", "SRCTOOLS"}
ALL_TAGS ==
    Range(GAME_ORDER) \cup ALL_FEATURES \cup TAGS_SPECIAL
        \cup {"SINCE_" \o upper(t) : t \in Range(GAME_ORDER)}
        \cup {"UNTIL_" \o upper(t) : t \in Range(GAME_ORDER)}

\* the largest TagSet drawn
MaxTags == 2

\* the TagSets of at most n tags of ALL_TAGS
RECURSIVE TagSets(_)
TagSets(n) ==
    IF n = 0 THEN {{}}
    ELSE TagSets(n - 1) \cup {T \cup {t} : T \in TagSets(n - 1), t \in ALL_TAGS}

ExpandInit ==
    /\ db = DbEmpty
    /\ start = DbEmpty
    /\ DbIdle
    /\ tset \in TagSets(MaxTags)
    /\ ttag = ""
    /\ tonce = {}
    /\ tres = tset
    /\ tn = 0

ApplyExpandTags ==
    /\ tn < 2
    /\ tres' = expand_tags(tres)
    /\ tonce' = IF tn = 0 THEN expand_tags(tres) ELSE tonce
    /\ tn' = tn + 1
    /\ UNCHANGED <<tset, ttag>>
    /\ UNCHANGED dbvars

ExpandNext == ApplyExpandTags

SpecExpand == ExpandInit /\ [][ExpandNext]_vars

\* C10: for every TagSet S and upper-case token X, add_tag(S, "!X") contains
\* "!X" and not the bare "X"; add_tag(S, "X") contains neither "!X" nor "-X";
\* and for every literal tag t, add_tag(add_tag(S, t), t) = add_tag(S, t).
C10_ToggleLaws ==
    /\ (tn >= 1 /\ \E x \in TagTokens : ttag = "!" \o x)
            => (ttag \in tonce /\ Tail(ttag) \notin tonce)
    /\ (tn >= 1 /\ ttag \in TagTokens)
            => (("!" \o ttag) \notin tonce /\ ("-" \o ttag) \notin tonce)
    /\ tn = 2 => tres = tonce

\* a TagSet holding X, !X and -X has been toggled twice, with !X and with X
C10_Witness ==
    /\ tn = 2
    /\ \E x \in TagTokens :
        /\ {x, "!" \o x, "-" \o x} \subseteq tset
        /\ ttag \in {x, "!" \o x}

\* C11: for every TagSet T drawn from the tag vocabulary (releases, features,
\* special tags, SINCE_/UNTIL_ tags), T is a subset of expand_tags(T) and
\* expand_tags(expand_tags(T)) = expand_tags(T).
C11_ExpandIdempotent ==
    /\ tn >= 1 => tset \subseteq tonce
    /\ tn = 2 => tres = tonce

\* a TagSet holding a release that bundles features has been expanded twice,
\* and the first expansion added features, SINCE_ and UNTIL_ tags
C11_Witness ==
    /\ tn = 2
    /\ "TF2" \in tset
    /\ {"INSTANCING", "PROP_SCALING", "SINCE_HLS", "SINCE_TF2", "UNTIL_P1",
        "UNTIL_P2DES"} \subseteq tres
    /\ "INSTANCING" \notin tset

(***************************************************************************)
(* Claims about action_import.  `last` holds the entity before the         *)
(* iteration (old), the fragment's entity (new) and the engine tag; `after`*)
(* is the entity the iteration wrote.                                      *)
(***************************************************************************)
Negated(tag) == "!" \o tag
SharedKeys(cat) == DOMAIN last.old[cat] \cap DOMAIN last.new[cat]
DroppedKeys(cat) == DOMAIN last.old[cat] \ DOMAIN last.new[cat]

\* C1: when the old entity has key k with an alternative whose TagSet is
\* non-empty and whose Definition equals the fragment's, the import under
\* engine E leaves k with as many alternatives as before and moves that
\* alternative to add_tag(oldTagSet, E), which contains E.
C1_Widening ==
    last.op = "merge" =>
        \A cat \in Cats : \A name \in SharedKeys(cat) :
            \A e \in Range(last.old[cat][name]) :
                (e.tag # {} /\ e.val \in DictValues(last.new[cat][name])) =>
                    /\ Len(after[cat][name]) = Len(last.old[cat][name])
                    /\ Entry(add_tag(e.tag, last.engine), e.val) \in Range(after[cat][name])
                    /\ last.engine \in add_tag(e.tag, last.engine)

\* C2: when an import under E of a fragment omitting k negated E on k's
\* alternatives and a later import under E declares k again with the same
\* Definition, then no alternative holding that Definition carries !E, and
\* its TagSet is empty or contains E.
C2_Restore ==
    last.op = "merge" =>
        \A t \in last.restored :
            \A e \in Range(after[t[2]][t[3]]) :
                e.val = t[5] =>
                    /\ Negated(last.engine) \notin e.tag
                    /\ (e.tag = {} \/ last.engine \in e.tag)

\* C3: every key of the old entity that the fragment omits is still present
\* after the import, with as many alternatives and the same Definitions as
\* before, each alternative's TagSet being add_tag(oldTagSet, "!" + E).
C3_Narrowing ==
    last.op = "merge" =>
        \A cat \in Cats : \A name \in DroppedKeys(cat) :
            /\ name \in DOMAIN after[cat]
            /\ Len(after[cat][name]) = Len(last.old[cat][name])
            /\ DictValues(after[cat][name]) = DictValues(last.old[cat][name])
            /\ \A e \in Range(last.old[cat][name]) :
                    Entry(add_tag(e.tag, Negated(last.engine)), e.val)
                        \in Range(after[cat][name])

\* the stored entity: description, bases, helpers and every key's map
SameStored(a, b) ==
    /\ a.desc = b.desc
    /\ a.bases = b.bases
    /\ a.helpers = b.helpers
    /\ \A cat \in Cats :
        /\ DOMAIN a[cat] = DOMAIN b[cat]
        /\ \A name \in DOMAIN a[cat] : Range(a[cat][name]) = Range(b[cat][name])

\* C4: importing the same fragment under the same engine a second time in a
\* row leaves the stored entity as the first import wrote it.
C4_Idempotent ==
    (last.op = "merge" /\ last.repeat) => SameStored(after, last.old)

\* C5, as claimed: when the fragment's Definition for k equals none of k's
\* alternatives, the import under E adds exactly one alternative, tagged {E},
\* and every alternative k had keeps its TagSet and its Definition.
C5_AddsOneAlternative ==
    last.op = "merge" =>
        \A cat \in Cats : \A name \in SharedKeys(cat) :
            \A v \in DictValues(last.new[cat][name]) \ DictValues(last.old[cat][name]) :
                /\ Len(after[cat][name]) = Len(last.old[cat][name]) + 1
                /\ Entry({last.engine}, v) \in Range(after[cat][name])
                /\ Range(last.old[cat][name]) \subseteq Range(after[cat][name])

\* C5, amended: when the fragment's Definition for k equals none of k's
\* alternatives, after the import k has the alternative {E} -> Definition,
\* every alternative not tagged exactly {E} keeps its TagSet and Definition,
\* and the number of alternatives rises by one unless k had an alternative
\* tagged exactly {E}, whose Definition is then replaced.
C5_AddsOrReplaces ==
    last.op = "merge" =>
        \A cat \in Cats : \A name \in SharedKeys(cat) :
            \A v \in DictValues(last.new[cat][name]) \ DictValues(last.old[cat][name]) :
                /\ Entry({last.engine}, v) \in Range(after[cat][name])
                /\ \A e \in Range(last.old[cat][name]) :
                        e.tag # {last.engine} => e \in Range(after[cat][name])
                /\ Len(after[cat][name]) =
                        Len(last.old[cat][name])
                        + (IF {last.engine} \in DictKeys(last.old[cat][name]) THEN 0 ELSE 1)

\* a merge met a key whose new Definition equals no old alternative, none of
\* them tagged {E}, and the key now has one alternative more
C5_Witness ==
    /\ last.op = "merge"
    /\ \E cat \in Cats : \E name \in SharedKeys(cat) :
        /\ DictValues(last.new[cat][name]) \cap DictValues(last.old[cat][name]) = {}
        /\ {last.engine} \notin DictKeys(last.old[cat][name])
        /\ Len(after[cat][name]) = Len(last.old[cat][name]) + 1

\* C8, as claimed: when the file of a classname exists without the classname,
\* the import goes on and writes the classnames that follow it.
C8_ImportContinues ==
    pc = "raised" => \A i \in 2..Len(todo) : todo[i].classname \in written

\* C8, amended: when the file of a classname exists without the classname,
\* action_import raises and the invocation ends there: nothing is written for
\* that classname or for those that follow it, and what was written before
\* stays written.
C8_ImportAborts ==
    [][/\ (pc = "import" /\ todo # <<>> /\ classname_missing)
            => (pc' = "raised" /\ db' = db /\ todo' = todo /\ written' = written)
       /\ pc = "raised" => (db' = db /\ nimports' = nimports + 1)]_vars

\* the import raised at a classname that another one follows, unwritten
C8_Witness ==
    /\ pc = "raised"
    /\ Len(todo) = 2
    /\ classname_missing
    /\ todo[2].classname \notin written
    /\ PathJoin(ent_path(todo[2])) \notin DOMAIN db

\* C9: the entity an import writes has exactly one AppliesTo helper, at the
\* place of the first one it had before normalisation (the front when it had
\* none), whose arguments are sorted, without duplicates, and contain E.
C9_AppliesTo ==
    last.op \in {"merge", "new"} =>
        LET before == {i \in DOMAIN last.helpers : last.helpers[i].type = EXT_APPLIES_TO}
            now == {i \in DOMAIN after.helpers : after.helpers[i].type = EXT_APPLIES_TO}
        IN  /\ Cardinality(now) = 1
            /\ \A i \in now :
                /\ (before = {} => i = 1)
                /\ (before # {} => i \in before /\ \A j \in before : i <= j)
                /\ \A a, b \in DOMAIN after.helpers[i].args :
                        a < b => StrLess(after.helpers[i].args[a], after.helpers[i].args[b])
                /\ last.engine \in Range(after.helpers[i].args)
(***************************************************************************)
(* Claims about action_export.  In the state an export leaves, `out` holds *)
(* the entities handed to the serializer and `db` the database it read.    *)
(***************************************************************************)
\* the entities of the database with this classname
Stored(classname) ==
    {db[p][classname] : p \in {q \in DOMAIN db : classname \in DOMAIN db[q]}}

\* the stored entity an emitted one was read from: the files that hold one
\* classname hold it with different kinds, and export keeps the kind
ReadFrom(classname) == {ent \in Stored(classname) : ent.type = out.ents[classname].type}

\* C6: the entities tagged mode hands to the serializer are all selected by
\* the expanded requested tags through their normalised AppliesTo list, none
\* is of kind BASE, and none carries an AppliesTo helper.
C6_TaggedExport ==
    (pc = "exported" /\ out.mode = "tagged") =>
        \A c \in DOMAIN out.ents :
            /\ \E ent \in ReadFrom(c) :
                    match_tags(expand_tags(out.tags), Range(appliesto_args(ent.helpers)))
            /\ out.ents[c].type # "BASE"
            /\ \A i \in DOMAIN out.ents[c].helpers :
                    out.ents[c].helpers[i].type # EXT_APPLIES_TO

\* a tagged export emitted an entity with a key of a base that was culled,
\* and left out an entity of the database
C6_Witness ==
    /\ pc = "exported"
    /\ out.mode = "tagged"
    /\ \E c \in DOMAIN out.ents : \E ent \in ReadFrom(c) :
        \E b \in Range(ent.bases) : \E base \in Stored(b) :
            /\ b \notin DOMAIN out.ents
            /\ ~match_tags(expand_tags(out.tags), Range(appliesto_args(base.helpers)))
            /\ \E key \in DOMAIN base.keyvalues :
                key \notin DOMAIN ent.keyvalues /\ key \in DOMAIN out.ents[c].keyvalues

\* C7: after an engine-mode export that did not raise, every key of every
\* category of every emitted entity has exactly one alternative, keyed by the
\* empty TagSet, with an empty description, and no keyvalue is of type
\* CHOICES: a choice enumeration has become INT when every raw value parses
\* as an integer and STRING otherwise, without its choice list.
C7_EngineExport ==
    (pc = "exported" /\ out.mode = "engine") =>
        \A c \in DOMAIN out.ents :
            /\ \A cat \in Cats : \A key \in DOMAIN out.ents[c][cat] :
                /\ Len(out.ents[c][cat][key]) = 1
                /\ out.ents[c][cat][key][1].tag = {}
                /\ out.ents[c][cat][key][1].val.desc = ""
            /\ \A key \in DOMAIN out.ents[c].keyvalues :
                out.ents[c].keyvalues[key][1].val.type # "CHOICES"
            /\ \A ent \in ReadFrom(c) : \A key \in DOMAIN ent.keyvalues :
                (Len(ent.keyvalues[key]) = 1 /\ ent.keyvalues[key][1].val.type = "CHOICES") =>
                    /\ out.ents[c].keyvalues[key][1].val.val_list = None
                    /\ out.ents[c].keyvalues[key][1].val.type =
                        IF \A vl \in ent.keyvalues[key][1].val.val_list :
                                \A i \in DOMAIN vl : is_int(vl[i].value)
                        THEN "INT" ELSE "STRING"

\* an engine export resolved a key with several alternatives, and turned one
\* choice enumeration into INT and another into STRING
C7_Witness ==
    /\ pc = "exported"
    /\ out.mode = "engine"
    /\ \E c \in DOMAIN out.ents : \E ent \in ReadFrom(c) :
        \E cat \in Cats : \E key \in DOMAIN ent[cat] :
            Len(ent[cat][key]) > 1 /\ ent[cat][key][1].val.desc # ""
    /\ \E t \in {"INT", "STRING"} \X {"INT", "STRING"} :
        /\ t[1] # t[2]
        /\ \A type \in {t[1], t[2]} :
            \E c \in DOMAIN out.ents : \E ent \in ReadFrom(c) :
                \E key \in DOMAIN ent.keyvalues :
                    /\ Len(ent.keyvalues[key]) = 1
                    /\ ent.keyvalues[key][1].val.type = "CHOICES"
                    /\ out.ents[c].keyvalues[key][1].val.type = type

\* the files of the database that hold a classname
files_of(classname) == {p \in DOMAIN db : classname \in DOMAIN db[p]}

\* C12: after any sequence of action_import invocations starting from an
\* empty database, each classname is stored in at most one fragment file,
\* also when successive imports declare it with different entity kinds.
C12_ClassnameUnique ==
    start = DbEmpty =>
        \A p \in DOMAIN db : \A c \in DOMAIN db[p] : files_of(c) = {p}

====
